---- MODULE Spec2Model ----
(***************************************************************************)
(* Model of generative-recommenders/analyze_profiler.py: main() and        *)
(* analyze_profiler_trace().                                               *)
(*                                                                         *)
(* Python floats are IEEE-754 binary64.  They are modelled exactly        *)
(* (53-bit significand, round to nearest, ties to even): a float is a     *)
(* record [z, e, m] standing for 0 when z, and otherwise for              *)
(* m * 2^(e - 52) with 2^52 <= m < 2^53.  Only non-negative finite normal *)
(* values occur (durations are non-negative integers).  sum() is the left *)
(* to right float addition of CPython up to 3.11.                         *)
(* Strings are sequences of one-character strings, so that lower(),       *)
(* endswith() and the substring test are computed rather than assumed.    *)
(***************************************************************************)
EXTENDS Integers, Sequences, FiniteSets

\* ------------------------------------------------------------------ floats

\* Significand width of a Python float (binary64).
PREC == 53

\* Significands are natural numbers held as sequences of limbs, most
\* significant first, because they do not fit the checker's integers.
Base == 2^15

LimbW == CHOOSE w \in 1..30 : 2^w = Base

Zeros(n) == [i \in 1..n |-> 0]

RECURSIVE Strip(_)
\* Without leading zero limbs (one limb at least).
Strip(x) == IF Len(x) > 1 /\ x[1] = 0 THEN Strip(Tail(x)) ELSE x

BigFromInt(n) ==
    Strip(<<n \div (Base * Base), (n \div Base) % Base, n % Base>>)

RECURSIVE DivSmallRec(_, _, _, _, _)
DivSmallRec(x, k, i, r, acc) ==
    IF i > Len(x) THEN <<Strip(acc), r>>
    ELSE LET t == r * Base + x[i]
         IN  DivSmallRec(x, k, i + 1, t % k, Append(acc, t \div k))

\* <<x div k, x mod k>> for 1 <= k < 2^16.
DivSmall(x, k) == DivSmallRec(x, k, 1, 0, <<>>)

RECURSIVE MulSmallRec(_, _, _, _, _)
MulSmallRec(x, s, i, carry, acc) ==
    IF i = 0 THEN Strip(<<carry>> \o acc)
    ELSE LET t == x[i] * s + carry
         IN  MulSmallRec(x, s, i - 1, t \div Base, <<t % Base>> \o acc)

\* x * s for 0 <= s <= 2^15.
MulSmall(x, s) == MulSmallRec(x, s, Len(x), 0, <<>>)

RECURSIVE AddRec(_, _, _, _, _)
AddRec(x, y, i, carry, acc) ==
    IF i = 0 THEN Strip(<<carry>> \o acc)
    ELSE LET t == x[i] + y[i] + carry
         IN  AddRec(x, y, i - 1, t \div Base, <<t % Base>> \o acc)

BigAdd(x, y) ==
    LET n  == IF Len(x) >= Len(y) THEN Len(x) ELSE Len(y)
        px == Zeros(n - Len(x)) \o x
        py == Zeros(n - Len(y)) \o y
    IN  AddRec(px, py, n, 0, <<>>)

\* Number of bits of a stripped, non-zero x.
BitLen(x) ==
    (Len(x) - 1) * LimbW + (CHOOSE j \in 1..LimbW : 2^(j - 1) <= x[1] /\ x[1] < 2^j)

\* <<x div 2^t, whether x mod 2^t # 0>>.
ShiftRight(x, t) ==
    LET a    == t \div LimbW
        keep == IF a >= Len(x) THEN <<0>> ELSE SubSeq(x, 1, Len(x) - a)
        lost == \E i \in 1..Len(x) : i > Len(x) - a /\ x[i] # 0
        q    == DivSmall(keep, 2^(t % LimbW))
    IN  <<q[1], lost \/ q[2] # 0>>

ShiftLeft(x, t) == MulSmall(x, 2^(t % LimbW)) \o Zeros(t \div LimbW)

F0 == [z |-> TRUE, e |-> 0, m |-> <<0>>]

\* A float is 0 (z) or m * 2^(e - (PREC - 1)) with m of exactly PREC bits.
\* RoundBig rounds x * 2^e2, plus a non-zero part below x's last bit when
\* sticky, to the nearest float, ties to even; x has more than PREC bits.
RoundBig(x, e2, sticky) ==
    LET L   == BitLen(x)
        y   == ShiftRight(x, L - (PREC + 1))
        rnd == y[1][Len(y[1])] % 2
        m   == DivSmall(y[1], 2)[1]
        st  == sticky \/ y[2]
        up  == rnd = 1 /\ (st \/ m[Len(m)] % 2 = 1)
        m1  == IF up THEN BigAdd(m, <<1>>) ELSE m
    IN  IF BitLen(m1) > PREC
        THEN [z |-> FALSE, e |-> e2 + L, m |-> DivSmall(m1, 2)[1]]
        ELSE [z |-> FALSE, e |-> e2 + L - 1, m |-> m1]

\* float(n) / float(k) for integers 0 <= n < 2^31, 1 <= k < 2^16: the
\* correctly rounded quotient (both integers are exactly representable).
FromDiv(n, k) ==
    IF n = 0 THEN F0
    ELSE LET q == DivSmall(BigFromInt(n) \o Zeros(5), k)
         IN  RoundBig(q[1], 0 - 5 * LimbW, q[2] # 0)

FromInt(n) == FromDiv(n, 1)

\* float_add of two non-negative floats: the exact sum, rounded once.
AddF(a, b) ==
    IF a.z THEN b
    ELSE IF b.z THEN a
    ELSE LET hi == IF a.e >= b.e THEN a ELSE b
             lo == IF a.e >= b.e THEN b ELSE a
             s  == BigAdd(ShiftLeft(hi.m, hi.e - lo.e), lo.m)
         IN  RoundBig(s, lo.e - (PREC - 1), FALSE)

\* float_div of a non-negative float by float(n), 1 <= n < 2^16: the
\* correctly rounded quotient.
DivF(a, n) ==
    IF a.z THEN F0
    ELSE LET q == DivSmall(a.m \o Zeros(4), n)
         IN  RoundBig(q[1], a.e - (PREC - 1) - 4 * LimbW, q[2] # 0)

\* a > b for non-negative floats.
GtF(a, b) ==
    IF a.z THEN FALSE
    ELSE IF b.z THEN TRUE
    ELSE IF a.e # b.e THEN a.e > b.e
    ELSE \E i \in 1..Len(a.m) :
            /\ a.m[i] > b.m[i]
            /\ \A j \in 1..(i - 1) : a.m[j] = b.m[j]

\* a < b, the comparison list.sort uses.
LtF(a, b) == GtF(b, a)


\* ----------------------------------------------------------------- strings

UpperCase == <<"A", "B", "C", "D", "E", "F", "G", "H", "I", "J", "K", "L", "M",
               "N", "O", "P", "Q", "R", "S", "T", "U", "V", "W", "X", "Y", "Z">>

LowerCase == <<"a", "b", "c", "d", "e", "f", "g", "h", "i", "j", "k", "l", "m",
               "n", "o", "p", "q", "r", "s", "t", "u", "v", "w", "x", "y", "z">>

\* str.lower()
Lower(s) ==
    [i \in 1..Len(s) |->
        IF \E k \in 1..Len(UpperCase) : UpperCase[k] = s[i]
        THEN LowerCase[CHOOSE k \in 1..Len(UpperCase) : UpperCase[k] = s[i]]
        ELSE s[i]]

\* sub in s
Contains(sub, s) ==
    \E i \in 0..(Len(s) - Len(sub)) : SubSeq(s, i + 1, i + Len(sub)) = sub

\* s.endswith(suf)
EndsWith(s, suf) ==
    Len(s) >= Len(suf) /\ SubSeq(s, Len(s) - Len(suf) + 1, Len(s)) = suf

\* os.path.join(a, b) for a relative b
PathJoin(a, b) ==
    IF a = <<>> \/ a[Len(a)] = "/" THEN a \o b ELSE a \o <<"/">> \o b

StrMemory  == <<"m", "e", "m", "o", "r", "y">>
StrUnknown == <<"u", "n", "k", "n", "o", "w", "n">>
StrDotJson == <<".", "j", "s", "o", "n">>
StrX       == <<"X">>

\* -------------------------------------------------------------- JSON values

JStr(s) == [t |-> "str", s |-> s, n |-> 0]
JInt(n) == [t |-> "int", s |-> <<>>, n |-> n]
JNull   == [t |-> "null", s |-> <<>>, n |-> 0]

\* dict.get(key, default): an event is a record holding the keys it has.
Get(d, key, default) == IF key \in DOMAIN d THEN d[key] ELSE default

\* --------------------------------------------------------------- the program

TopN      == 20
Threshold == 10
UsPerMs   == 1000

VARIABLES
    argv,         \* [trace_file, profiler_dir]: JNull (flag absent) or JStr
    fs,           \* the file system the run sees
    platform,     \* "posix" | "windows": what os.path.getctime returns
    pc,           \* where the run is
    exc,          \* the exception that ended the run, "" when none
    out,          \* what has been printed, one tag per line
    io,           \* the file system calls made, in order
    calls,        \* how often analyze_profiler_trace was entered
    trace_path,
    events,
    idx,          \* number of events the scan loop has consumed
    event_stats,  \* dict, as the sequence of its (name, durations) items
    table,        \* the rows printed by the ranking loop
    high_avg,     \* the bottleneck lines printed
    memcount      \* the count printed in the memory section, -1 when none

vars == <<argv, fs, platform, pc, exc, out, io, calls, trace_path, events, idx,
          event_stats, table, high_avg, memcount>>

\* A flag taken as supplied whenever it is not None.
TruthyNotNone(v) == v.t = "str"

Truthy(v) == v.t = "str" /\ v.s # <<>>

\* os.path.exists / isdir / the directory's entries, from fs.
Exists(p) == (p = fs.tpath /\ fs.tpresent) \/ (p = fs.dpath /\ fs.dpresent)
IsDir(p)  == p = fs.dpath /\ fs.dpresent

\* os.path.getctime: the creation time on Windows, the time of the last
\* inode change on POSIX.
GetCTime(entry) == IF platform = "windows" THEN entry.created ELSE entry.changed

\* Line 45, max(trace_files, key=getctime): the first entry whose time no
\* other exceeds.
LatestTrace(trace_files) ==
    trace_files[CHOOSE i \in 1..Len(trace_files) :
        /\ \A j \in 1..Len(trace_files) :
               GetCTime(trace_files[j]) <= GetCTime(trace_files[i])
        /\ \A j \in 1..(i - 1) :
               GetCTime(trace_files[j]) < GetCTime(trace_files[i])]

IsJsonName(entry) == EndsWith(entry.name, StrDotJson)

\* main(), lines 118-124.
Main ==
    /\ pc = "main"
    /\ IF ~Truthy(argv.trace_file) /\ ~Truthy(argv.profiler_dir)
       THEN /\ pc' = "exit2"
            /\ out' = Append(out, "usage_error")
            /\ calls' = calls
       ELSE /\ pc' = "select"
            /\ out' = out
            /\ calls' = calls + 1
    /\ UNCHANGED <<argv, fs, platform, exc, io, trace_path, events, idx,
                   event_stats, table, high_avg, memcount>>

\* analyze_profiler_trace, lines 27-49.
SelectPath ==
    /\ pc = "select"
    /\ IF Truthy(argv.trace_file)
       THEN LET p == argv.trace_file.s IN
            /\ io' = Append(io, [op |-> "exists", path |-> p])
            /\ exc' = exc
            /\ IF ~Exists(p)
               THEN /\ out' = Append(out, "trace_file_missing")
                    /\ pc' = "returned"
                    /\ trace_path' = trace_path
               ELSE /\ out' = Append(out, "analyzing")
                    /\ pc' = "load"
                    /\ trace_path' = p
       ELSE LET d  == argv.profiler_dir.s
                tf == SelectSeq(fs.entries, IsJsonName)
            IN
            IF ~Exists(d)
            THEN /\ io' = Append(io, [op |-> "exists", path |-> d])
                 /\ out' = Append(out, "profiler_dir_missing")
                 /\ pc' = "returned"
                 /\ UNCHANGED <<exc, trace_path>>
            ELSE IF ~IsDir(d)
            THEN /\ io' = io \o <<[op |-> "exists", path |-> d],
                                  [op |-> "listdir", path |-> d]>>
                 /\ exc' = "NotADirectoryError"
                 /\ pc' = "crashed"
                 /\ UNCHANGED <<out, trace_path>>
            ELSE IF tf = <<>>
            THEN /\ io' = io \o <<[op |-> "exists", path |-> d],
                                  [op |-> "listdir", path |-> d]>>
                 /\ out' = Append(out, "no_trace_files")
                 /\ pc' = "returned"
                 /\ UNCHANGED <<exc, trace_path>>
            ELSE /\ io' = io \o <<[op |-> "exists", path |-> d],
                                  [op |-> "listdir", path |-> d]>>
                         \o [i \in 1..Len(tf) |->
                                [op |-> "getctime", path |-> PathJoin(d, tf[i].name)]]
                 /\ trace_path' = PathJoin(d, LatestTrace(tf).name)
                 /\ out' = Append(out, "analyzing")
                 /\ pc' = "load"
                 /\ exc' = exc
    /\ UNCHANGED <<argv, fs, platform, calls, events, idx, event_stats, table,
                   high_avg, memcount>>

\* Lines 52-59: open, json.load, trace_data.get('traceEvents', []).
Load ==
    /\ pc = "load"
    /\ io' = Append(io, [op |-> "open", path |-> trace_path])
    /\ IF IsDir(trace_path)
       THEN /\ exc' = "IsADirectoryError" /\ pc' = "crashed" /\ events' = events
       ELSE IF fs.content.kind = "invalid"
       THEN /\ exc' = "JSONDecodeError" /\ pc' = "crashed" /\ events' = events
       ELSE IF fs.content.kind = "array"
       THEN /\ exc' = "AttributeError" /\ pc' = "crashed" /\ events' = events
       ELSE /\ exc' = exc
            /\ pc' = "scan"
            /\ events' = IF fs.content.kind = "nokey" THEN <<>>
                         ELSE fs.content.events
    /\ UNCHANGED <<argv, fs, platform, out, calls, trace_path, idx, event_stats,
                   table, high_avg, memcount>>

\* Index of name among the dict's keys, 0 when absent.
KeyIndex(stats, name) ==
    IF \E i \in 1..Len(stats) : stats[i].name = name
    THEN CHOOSE i \in 1..Len(stats) : stats[i].name = name
    ELSE 0

\* The duration replacing the list of its name instead of joining it.
RecordOverwrite(stats, name, duration) ==
    LET k == KeyIndex(stats, name) IN
    IF k = 0 THEN Append(stats, [name |-> name, durs |-> <<duration>>])
    ELSE [stats EXCEPT ![k].durs = <<duration>>]

\* Lines 65-67: event_stats.setdefault(name, []).append(duration).
Record(stats, name, duration) ==
    LET k == KeyIndex(stats, name) IN
    IF k = 0 THEN Append(stats, [name |-> name, durs |-> <<duration>>])
    ELSE [stats EXCEPT ![k].durs = Append(@, duration)]

\* A record without phase taken as complete.
IsCompleteByDefault(event) == Get(event, "ph", JStr(StrX)) = JStr(StrX)

\* Line 61.
IsComplete(event) == Get(event, "ph", JNull) = JStr(StrX)

\* Line 62.
NameOf(event) == Get(event, "name", JStr(StrUnknown))

\* A missing dur taken as one microsecond.
DurationMsDefaultOne(event) == FromDiv(Get(event, "dur", JInt(1)).n, UsPerMs)

\* Line 63, for a numeric dur.
DurationMs(event) == FromDiv(Get(event, "dur", JInt(0)).n, UsPerMs)

\* One iteration of the loop of lines 60-67.
ScanStep ==
    /\ pc = "scan"
    /\ idx < Len(events)
    /\ LET event == events[idx + 1] IN
       IF ~IsComplete(event)
       THEN /\ idx' = idx + 1
            /\ UNCHANGED <<event_stats, pc, exc>>
       ELSE IF Get(event, "dur", JInt(0)).t # "int"
       THEN /\ exc' = "TypeError"
            /\ pc' = "crashed"
            /\ UNCHANGED <<idx, event_stats>>
       ELSE /\ event_stats' = Record(event_stats, NameOf(event), DurationMs(event))
            /\ idx' = idx + 1
            /\ UNCHANGED <<pc, exc>>
    /\ UNCHANGED <<argv, fs, platform, out, io, calls, trace_path, events, table,
                   high_avg, memcount>>

RECURSIVE FSum(_)
\* sum(durations): 0 + d1 + d2 + ..., left to right.
FSum(durs) ==
    IF durs = <<>> THEN F0
    ELSE AddF(FSum(SubSeq(durs, 1, Len(durs) - 1)), durs[Len(durs)])

\* max(durations): the first element no other exceeds.
FMax(durs) ==
    durs[CHOOSE i \in 1..Len(durs) :
            /\ \A j \in 1..Len(durs) : ~GtF(durs[j], durs[i])
            /\ \A j \in 1..(i - 1) : LtF(durs[j], durs[i])]

\* The list holding the values of s (evaluated once).
List(s) == SubSeq(s, 1, Len(s))

Reverse(s) == List([i \in 1..Len(s) |-> s[Len(s) + 1 - i]])

\* A stable ascending sort of s by key[i], the key of s[i]: s[i] goes after
\* every element with a smaller key and every earlier one with an equal key.
StableSort(s, key) ==
    LET rank == List([i \in 1..Len(s) |->
                    Cardinality({j \in 1..Len(s) :
                        LtF(key[j], key[i]) \/ (j < i /\ ~LtF(key[i], key[j]))})])
    IN  List([r \in 1..Len(s) |-> s[CHOOSE i \in 1..Len(s) : rank[i] = r - 1]])

\* A descending sort that reverses the ascending one, and with it the order
\* of equal keys.
SortedThenReversed(s, key) == Reverse(StableSort(s, key))

\* sorted(s, key=..., reverse=True): list.sort reverses the list, sorts it
\* stably in ascending order and reverses the result.
SortedReverse(s, key) == Reverse(StableSort(Reverse(s), Reverse(key)))

\* Line 74.
SortedEvents(stats) ==
    SortedReverse(stats, List([i \in 1..Len(stats) |-> FSum(stats[i].durs)]))

\* Lines 77-80.
Row(item) ==
    [name  |-> item.name,
     count |-> Len(item.durs),
     avg   |-> DivF(FSum(item.durs), Len(item.durs)),
     max   |-> FMax(item.durs),
     total |-> FSum(item.durs)]

\* sorted_events[:20]
TopSlice(s) == SubSeq(s, 1, IF Len(s) < TopN THEN Len(s) ELSE TopN)

\* Line 82: formatting a None name with "<40" raises TypeError; the number
\* of rows of top printed before that.
Printable(top) ==
    LET bad == {i \in 1..Len(top) : top[i].name.t = "null"}
    IN  IF bad = {} THEN Len(top)
        ELSE (CHOOSE i \in bad : \A j \in bad : i <= j) - 1

\* Lines 70-82: the header, then one row per item of sorted_events[:20].
PrintTable ==
    /\ pc = "scan"
    /\ idx = Len(events)
    /\ \E top \in {TopSlice(SortedEvents(event_stats))} :
       \E n \in {Printable(top)} :
           /\ table' = [i \in 1..n |-> Row(top[i])]
           /\ out' = out \o <<"perf_header">> \o [i \in 1..n |-> "perf_row"]
           /\ IF n = Len(top)
              THEN pc' = "bottlenecks" /\ exc' = exc
              ELSE pc' = "crashed" /\ exc' = "TypeError"
    /\ UNCHANGED <<argv, fs, platform, io, calls, trace_path, events, idx,
                   event_stats, high_avg, memcount>>

\* Line 86-87.
HighAvgEvents(stats) ==
    LET pair == List([i \in 1..Len(stats) |->
                    [name |-> stats[i].name,
                     avg  |-> DivF(FSum(stats[i].durs), Len(stats[i].durs))]])
    IN  SelectSeq(pair, LAMBDA q : GtF(q.avg, FromInt(Threshold)))

\* Line 90.
SortedHigh(high) == SortedReverse(high, List([i \in 1..Len(high) |-> high[i].avg]))

\* Lines 85-93.
Bottlenecks ==
    /\ pc = "bottlenecks"
    /\ \E high \in {HighAvgEvents(event_stats)} :
           /\ high_avg' = SortedHigh(high)
           /\ out' = IF high # <<>>
                     THEN out \o <<"bottleneck_header">>
                              \o [i \in 1..Len(high) |-> "bottleneck_row"]
                     ELSE out \o <<"bottleneck_header", "no_bottlenecks">>
    /\ pc' = "memory"
    /\ UNCHANGED <<argv, fs, platform, exc, io, calls, trace_path, events, idx,
                   event_stats, table, memcount>>

\* The substring test without lower().
IsMemoryEventCaseSensitive(event) ==
    Contains(StrMemory, Get(event, "name", JStr(<<>>)).s)

\* 'memory' in e.get('name', '').lower(), for a str name.
IsMemoryEvent(event) ==
    Contains(StrMemory, Lower(Get(event, "name", JStr(<<>>)).s))

\* Lines 96-99; .lower() of a name that is no str raises AttributeError.
Memory ==
    /\ pc = "memory"
    /\ IF \E i \in 1..Len(events) : Get(events[i], "name", JStr(<<>>)).t # "str"
       THEN /\ pc' = "crashed"
            /\ exc' = "AttributeError"
            /\ UNCHANGED <<out, memcount>>
       ELSE LET memory_events == SelectSeq(events, IsMemoryEvent) IN
            /\ pc' = "recommend"
            /\ exc' = exc
            /\ IF memory_events # <<>>
               THEN /\ out' = out \o <<"memory_header", "memory_count">>
                    /\ memcount' = Len(memory_events)
               ELSE UNCHANGED <<out, memcount>>
    /\ UNCHANGED <<argv, fs, platform, io, calls, trace_path, events, idx,
                   event_stats, table, high_avg>>

\* Lines 101-108.
Recommend ==
    /\ pc = "recommend"
    /\ out' = Append(out, "recommendations")
    /\ pc' = "done"
    /\ UNCHANGED <<argv, fs, platform, exc, io, calls, trace_path, events, idx,
                   event_stats, table, high_avg, memcount>>

\* ------------------------------------------------------------------ inputs

MaxEvents == 3
MaxExtra  == 2
MaxTime   == 3

NameA == <<"a">>
NameB == <<"b">>

Ev(ph, name, dur) == [ph |-> JStr(ph), name |-> JStr(name), dur |-> JInt(dur)]

\* The events short traces are made of.
EventSet ==
    { Ev(StrX, NameA, 9999),
      Ev(StrX, NameA, 20000),
      Ev(StrX, NameA, 1),
      [ph |-> JStr(StrX), name |-> JStr(NameA)],
      Ev(StrX, NameB, 20000),
      [ph |-> JStr(StrX), dur |-> JInt(20000)],
      Ev(<<"i">>, <<"M", "e", "m", "o", "r", "y">>, 20000),
      Ev(StrX, <<"c", "u", "d", "a", "M", "E", "M", "O", "R", "Y">>, 10000),
      [name |-> JStr(NameA), dur |-> JInt(20000)] }

\* Events with values of other types, and names near the defaults.
OddEvents ==
    { [ph |-> JStr(StrX), name |-> JInt(5), dur |-> JInt(20000)],
      [ph |-> JStr(StrX), name |-> JNull, dur |-> JInt(1)],
      [ph |-> JStr(StrX), name |-> JStr(NameA), dur |-> JStr(<<"7">>)],
      [ph |-> JStr(<<"i">>), name |-> JNull],
      Ev(StrX, StrUnknown, 20000),
      Ev(<<"i">>, <<"m", "e", "m", "o", "r">>, 20000),
      [ph |-> JNull, name |-> JStr(StrMemory), dur |-> JInt(10001)] }

ShortTraces == UNION {[1..n -> EventSet] : n \in 0..MaxEvents}

OddTraces ==
    {<<o>> : o \in OddEvents}
        \cup {<<x, o>> : x \in EventSet, o \in OddEvents}
        \cup {<<o, x>> : x \in EventSet, o \in OddEvents}

\* n distinct names, one complete event each, every average above the
\* threshold and the totals repeating with period 5.
LongTrace(n) ==
    [i \in 1..n |-> Ev(StrX, <<"o", "p", LowerCase[i]>>, 11000 + 1000 * ((2 * i) % 5))]

LongTraces == {LongTrace(n) : n \in (TopN - 1)..(TopN + MaxExtra)}

Trace(evs) == [kind |-> "trace", events |-> evs]

NoTrace(kind) == [kind |-> kind, events |-> <<>>]

PathT == <<"t", ".", "j", "s", "o", "n">>
DirD  == <<"p", "r", "o", "f">>

Entry(name, created, changed) ==
    [name |-> name, created |-> created, changed |-> changed]

EntryA(c, h) == Entry(<<"a", ".", "j", "s", "o", "n">>, c, h)
EntryB(c, h) == Entry(<<"b", ".", "j", "s", "o", "n">>, c, h)
EntryTxt     == Entry(<<"n", ".", "t", "x", "t">>, MaxTime, MaxTime)
EntryNoDot   == Entry(<<"a", "j", "s", "o", "n">>, MaxTime, MaxTime)

Times == {t \in (1..MaxTime) \X (1..MaxTime) : t[1] <= t[2]}

Listings ==
    {<<>>, <<EntryTxt>>, <<EntryNoDot, EntryTxt>>}
        \cup {<<EntryA(ta[1], ta[2]), EntryB(tb[1], tb[2])>> : ta \in Times, tb \in Times}
        \cup {<<EntryB(tb[1], tb[2]), EntryTxt, EntryA(ta[1], ta[2])>> : ta \in Times, tb \in Times}
        \cup {<<EntryNoDot, EntryA(ta[1], ta[2])>> : ta \in Times}

ArgValues == {JNull, JStr(<<>>), JStr(PathT), JStr(DirD)}

Fs(tpresent, dpresent, entries, content) ==
    [tpath |-> PathT, tpresent |-> tpresent, dpath |-> DirD, dpresent |-> dpresent,
     entries |-> entries, content |-> content]

Start ==
    /\ pc = "main"
    /\ exc = ""
    /\ out = <<>>
    /\ io = <<>>
    /\ calls = 0
    /\ trace_path = <<>>
    /\ events = <<>>
    /\ idx = 0
    /\ event_stats = <<>>
    /\ table = <<>>
    /\ high_avg = <<>>
    /\ memcount = -1

\* Every combination of the two flags, over a small file system.
InitCli ==
    /\ argv \in [trace_file : ArgValues, profiler_dir : ArgValues]
    /\ fs \in {Fs(tp, dp, IF dp THEN <<EntryA(1, 1), EntryB(2, 2)>> ELSE <<>>, c) :
                 tp \in BOOLEAN, dp \in BOOLEAN,
                 c \in {NoTrace("invalid"), Trace(<<Ev(StrX, NameA, 20000)>>)}}
    /\ platform = "posix"

\* Discovery mode over every directory listing.
InitDir ==
    /\ argv \in [trace_file : {JNull, JStr(<<>>)}, profiler_dir : {JStr(DirD)}]
    /\ fs \in {Fs(FALSE, TRUE, l, Trace(<<Ev(StrX, NameA, 20000)>>)) : l \in Listings}
    /\ platform \in {"posix", "windows"}

\* One explicit trace file, over every content.
InitTrace ==
    /\ argv = [trace_file |-> JStr(PathT), profiler_dir |-> JNull]
    /\ fs \in {Fs(TRUE, FALSE, <<>>, c) :
                 c \in {NoTrace("invalid"), NoTrace("array"), NoTrace("nokey")}
                         \cup {Trace(t) : t \in ShortTraces \cup OddTraces \cup LongTraces}}
    /\ platform = "posix"

Init == Start /\ (InitCli \/ InitDir \/ InitTrace)

Next ==
    \/ Main
    \/ SelectPath
    \/ Load
    \/ ScanStep
    \/ PrintTable
    \/ Bottlenecks
    \/ Memory
    \/ Recommend

Spec == Init /\ [][Next]_vars

\* -------------------------------------------------------------- properties

Lines == {out[i] : i \in 1..Len(out)}

ReportTags == {"perf_header", "perf_row", "bottleneck_header", "bottleneck_row",
               "no_bottlenecks", "memory_header", "memory_count", "recommendations"}

DiagTags == {"trace_file_missing", "profiler_dir_missing", "no_trace_files"}

\* The reading of an event record the statements below are written in.
HasKey(e, k) == k \in DOMAIN e
IsX(e)       == HasKey(e, "ph") /\ e.ph.t = "str" /\ e.ph.s = <<"X">>
KeyOf(e)     == IF HasKey(e, "name") THEN e.name
                ELSE JStr(<<"u", "n", "k", "n", "o", "w", "n">>)
MsOf(e)      == IF HasKey(e, "dur") THEN FromDiv(e.dur.n, 1000) ELSE F0
IsXOfKey(e, key) == IsX(e) /\ KeyOf(e) = key

XOf(tr) == SelectSeq(tr, IsX)

KeysOf(tr) == {KeyOf(tr[i]) : i \in {j \in 1..Len(tr) : IsX(tr[j])}}

\* The milliseconds of the complete events named key, in file order.
DursOf(tr, key) ==
    LET sel == SelectSeq(tr, LAMBDA e : IsXOfKey(e, key))
    IN  [i \in 1..Len(sel) |-> MsOf(sel[i])]

\* Where key first occurs among the complete events of tr.
FirstIdx(tr, key) ==
    CHOOSE i \in 1..Len(tr) :
        /\ IsXOfKey(tr[i], key)
        /\ \A j \in 1..(i - 1) : ~IsXOfKey(tr[j], key)

RECURSIVE SumLen(_)
SumLen(stats) ==
    IF stats = <<>> THEN 0 ELSE Len(Head(stats).durs) + SumLen(Tail(stats))

StatNames == {event_stats[i].name : i \in 1..Len(event_stats)}

PastTable == pc \in {"bottlenecks", "memory", "recommend", "done"}
PastBottlenecks == pc \in {"memory", "recommend", "done"}

\* The ways an input fails: the trace file is missing, the directory is
\* missing, the directory holds no .json file, the selected file is not JSON
\* of the expected shape.
InputFails ==
    \/ Truthy(argv.trace_file) /\ ~Exists(argv.trace_file.s)
    \/ ~Truthy(argv.trace_file) /\ Truthy(argv.profiler_dir)
        /\ ~Exists(argv.profiler_dir.s)
    \/ ~Truthy(argv.trace_file) /\ Truthy(argv.profiler_dir)
        /\ IsDir(argv.profiler_dir.s)
        /\ \A i \in 1..Len(fs.entries) :
              ~EndsWith(fs.entries[i].name, <<".", "j", "s", "o", "n">>)
    \/ trace_path # <<>> /\ ~IsDir(trace_path)
        /\ fs.content.kind \in {"invalid", "array"}

\* C1: when the input fails in one of these ways the run ends handled: a
\* diagnostic is printed and no exception escapes.
C1_FailuresHandled ==
    (InputFails /\ pc \in {"done", "returned", "crashed"})
        => /\ pc = "returned"
           /\ exc = ""
           /\ out # <<>> /\ out[Len(out)] \in DiagTags

\* C2: a run that ends in failure has printed no part of the report.
C2_NoPartialReport ==
    pc \in {"exit2", "returned", "crashed"} => Lines \cap ReportTags = {}

RECURSIVE ScanAll(_)
\* The loop of lines 59-67 run over a whole trace.
ScanAll(tr) ==
    IF tr = <<>> THEN <<>>
    ELSE LET prev  == ScanAll(SubSeq(tr, 1, Len(tr) - 1))
             event == tr[Len(tr)]
         IN  IF IsComplete(event)
             THEN Record(prev, NameOf(event), DurationMs(event))
             ELSE prev

RowsOf(stats) ==
    LET top == TopSlice(SortedEvents(stats))
    IN  [i \in 1..Len(top) |-> Row(top[i])]

\* C3: records whose phase is not "X" (or is absent) never affect the
\* statistics: the mapping and the table are those of the trace with these
\* records removed, and a trace without "X" records gives an empty mapping,
\* an empty table and "no bottlenecks found".
C3_NonCompleteIgnored ==
    /\ ((pc = "scan" /\ idx = Len(events)) \/ PastTable)
          => event_stats = ScanAll(XOf(events))
    /\ PastTable => table = RowsOf(ScanAll(XOf(events)))
    /\ (PastTable /\ XOf(events) = <<>>) => event_stats = <<>> /\ table = <<>>
    /\ (PastBottlenecks /\ XOf(events) = <<>>)
          => high_avg = <<>> /\ "no_bottlenecks" \in Lines

C3_Witness ==
    /\ pc = "done"
    /\ Len(events) = 3
    /\ Len(XOf(events)) = 1
    /\ \E i \in 1..3 : ~HasKey(events[i], "ph")
    /\ Len(table) = 1

\* C4: after each step of the scan the mapping holds exactly the durations
\* of the "X" records scanned so far: each under the key that is its
\* (defaulted) name, once, in file order; no key is empty; the lengths add
\* up to the number of "X" records scanned.
C4_StatsExact ==
    LET tr == SubSeq(events, 1, idx) IN
    /\ \A i, j \in 1..Len(event_stats) :
          i # j => event_stats[i].name # event_stats[j].name
    /\ StatNames = KeysOf(tr)
    /\ \A i \in 1..Len(event_stats) :
          /\ event_stats[i].durs = DursOf(tr, event_stats[i].name)
          /\ Len(event_stats[i].durs) >= 1
    /\ SumLen(event_stats) = Len(XOf(tr))

C4_Witness ==
    /\ pc = "scan"
    /\ idx = 3
    /\ Len(event_stats) = 2
    /\ \E i \in 1..2 : Len(event_stats[i].durs) = 2

\* Value ta of name ka ranks before value tb of name kb: it is greater, or
\* equal with ka first met earlier in the file.
Ahead(tr, ta, ka, tb, kb) ==
    \/ GtF(ta, tb)
    \/ ~GtF(tb, ta) /\ FirstIdx(tr, ka) < FirstIdx(tr, kb)

\* C5: the table lists name, count, average, max and total of each name,
\* by total descending, names of equal total in the order of their first
\* occurrence in the file; it holds min(20, number of names) rows, the first
\* of that order.
C5_RankedReport ==
    PastTable =>
        /\ Len(table) = IF Cardinality(KeysOf(events)) < 20
                        THEN Cardinality(KeysOf(events)) ELSE 20
        /\ \A r \in 1..Len(table) :
              LET d == DursOf(events, table[r].name) IN
              /\ table[r].name \in KeysOf(events)
              /\ table[r].count = Len(d)
              /\ table[r].total = FSum(d)
              /\ table[r].avg = DivF(FSum(d), Len(d))
              /\ \E p \in 1..Len(d) : d[p] = table[r].max
              /\ \A p \in 1..Len(d) : ~GtF(d[p], table[r].max)
        /\ \A r1, r2 \in 1..Len(table) :
              r1 < r2 => Ahead(events, table[r1].total, table[r1].name,
                                        table[r2].total, table[r2].name)
        /\ \A k \in KeysOf(events) :
              (\A r \in 1..Len(table) : table[r].name # k)
                 => \A r \in 1..Len(table) :
                       Ahead(events, table[r].total, table[r].name,
                                     FSum(DursOf(events, k)), k)

C5_Witness ==
    /\ pc = "done"
    /\ Cardinality(KeysOf(events)) > 20
    /\ Len(table) = 20
    /\ \E r \in 1..19 : table[r].total = table[r + 1].total
    /\ \E r \in 1..19 : GtF(table[r].total, table[r + 1].total)

RECURSIVE SumUs(_)
\* The microseconds of the records of sel, added as integers.
SumUs(sel) ==
    IF sel = <<>> THEN 0
    ELSE (IF HasKey(Head(sel), "dur") THEN Head(sel).dur.n ELSE 0) + SumUs(Tail(sel))

EventsOf(tr, key) == SelectSeq(tr, LAMBDA e : IsXOfKey(e, key))

AboveThreshold(tr) ==
    {k \in KeysOf(tr) : SumUs(EventsOf(tr, k)) > 10000 * Len(EventsOf(tr, k))}

\* C6: the bottleneck list holds exactly the names whose average is above
\* 10 ms, that is whose microseconds add up to more than 10000 * count, drawn
\* from all names, by average descending, equal averages in insertion order;
\* "no bottlenecks found" is printed when there is none.
C6_BottleneckList ==
    PastBottlenecks =>
        /\ {high_avg[i].name : i \in 1..Len(high_avg)} = AboveThreshold(events)
        /\ Len(high_avg) = Cardinality(AboveThreshold(events))
        /\ \A r1, r2 \in 1..Len(high_avg) :
              r1 < r2 => Ahead(events, high_avg[r1].avg, high_avg[r1].name,
                                        high_avg[r2].avg, high_avg[r2].name)
        /\ ("no_bottlenecks" \in Lines) <=> (AboveThreshold(events) = {})

\* Which of the "X" records of its name record i of tr is.
Position(tr, i) ==
    Cardinality({j \in 1..i : IsXOfKey(tr[j], KeyOf(tr[i]))})

\* C7: an "X" record without dur contributes 0.0 ms under its name, one
\* without name is counted under "unknown"; neither fails the run, and each
\* counts like any other "X" record.
C7_Defaults ==
    /\ \A i \in 1..idx :
          IsX(events[i]) =>
             \E k \in 1..Len(event_stats) :
                /\ event_stats[k].name =
                      (IF HasKey(events[i], "name") THEN events[i].name
                       ELSE JStr(StrUnknown))
                /\ Len(event_stats[k].durs) >= Position(events, i)
                /\ ~HasKey(events[i], "dur")
                      => event_stats[k].durs[Position(events, i)] = F0
                /\ HasKey(events[i], "dur")
                      => event_stats[k].durs[Position(events, i)]
                            = FromDiv(events[i].dur.n, 1000)
    /\ (pc = "crashed" /\ idx < Len(events) /\ Lines \cap ReportTags = {}
          /\ exc = "TypeError")
          => HasKey(events[idx + 1], "dur") /\ HasKey(events[idx + 1], "ph")

C7_Witness ==
    /\ pc = "done"
    /\ \E i, j \in 1..Len(events) :
          /\ IsX(events[i]) /\ ~HasKey(events[i], "dur")
          /\ IsX(events[j]) /\ ~HasKey(events[j], "name")
    /\ \E k \in 1..Len(event_stats) :
          /\ event_stats[k].name = JStr(StrUnknown)
          /\ Len(event_stats[k].durs) = 1

Started == pc \notin {"main", "select", "exit2", "returned"}

\* C8: without --trace_file, the file analyzed is the .json entry of the
\* directory created last, never an entry without that ending; with
\* --trace_file, it is that file and the directory is not consulted.
C8_LatestCreated ==
    /\ (Started /\ ~Truthy(argv.trace_file) /\ exc # "NotADirectoryError")
          => \E i \in 1..Len(fs.entries) :
                LET e == fs.entries[i] IN
                /\ EndsWith(e.name, <<".", "j", "s", "o", "n">>)
                /\ trace_path = argv.profiler_dir.s \o <<"/">> \o e.name
                /\ \A j \in 1..Len(fs.entries) :
                      EndsWith(fs.entries[j].name, <<".", "j", "s", "o", "n">>)
                         => fs.entries[j].created <= e.created
    /\ (Started /\ Truthy(argv.trace_file))
          => /\ trace_path = argv.trace_file.s
             /\ \A k \in 1..Len(io) : io[k].op \in {"exists", "open"}
                                      /\ io[k].path = argv.trace_file.s

Supplied(v) == v.t = "str" /\ Len(v.s) > 0

\* C9: with neither flag supplied (absent or empty) the run ends with a
\* usage error before analyze_profiler_trace is entered: nothing is checked,
\* opened or reported; otherwise analyze_profiler_trace is entered once.
C9_UsageFirst ==
    /\ (~Supplied(argv.trace_file) /\ ~Supplied(argv.profiler_dir))
          => /\ pc \in {"main", "exit2"}
             /\ calls = 0
             /\ io = <<>>
             /\ Lines \subseteq {"usage_error"}
    /\ (Supplied(argv.trace_file) \/ Supplied(argv.profiler_dir))
          => /\ pc # "exit2"
             /\ pc # "main" => calls = 1
             /\ "usage_error" \notin Lines

C9_Witness ==
    /\ pc = "exit2"
    /\ argv.trace_file = JStr(<<>>)
    /\ argv.profiler_dir = JNull
    /\ fs.tpresent

\* s holds "memory", in any mix of cases, right after its first off
\* characters.
MatchesAt(s, off) ==
    \A k \in 1..6 : s[off + k] \in {<<"m", "e", "m", "o", "r", "y">>[k],
                                    <<"M", "E", "M", "O", "R", "Y">>[k]}

NamesMemory(e) ==
    /\ HasKey(e, "name")
    /\ e.name.t = "str"
    /\ \E off \in 0..(Len(e.name.s) - 6) : MatchesAt(e.name.s, off)

MemoryLines == Len(SelectSeq(out, LAMBDA l : l \in {"memory_header", "memory_count"}))

\* C10: the count reported is the number of records, of any phase, whose
\* name contains "memory" in any mix of cases (a record without name does
\* not match); the statistics neither enter into it nor change; the count
\* alone is reported.
C10_MemoryCount ==
    pc \in {"recommend", "done"} =>
        LET n == Len(SelectSeq(events, NamesMemory)) IN
        /\ n > 0 => memcount = n /\ MemoryLines = 2
        /\ n = 0 => memcount = -1 /\ MemoryLines = 0
        /\ event_stats = ScanAll(events)
        /\ Len(SelectSeq(out, LAMBDA l : l = "memory_count")) <= 1

C10_Witness ==
    /\ pc = "done"
    /\ memcount = 2
    /\ \E i \in 1..Len(events) : NamesMemory(events[i]) /\ ~IsX(events[i])
    /\ \E i \in 1..Len(events) : NamesMemory(events[i]) /\ IsX(events[i])
    /\ \E i \in 1..Len(events) : ~NamesMemory(events[i])

====
